---------------------------- MODULE Spec2Model ----------------------------
(***************************************************************************)
(* A model of the snapshot store of photon-dance-snap (snapshotter.go):    *)
(* a directory of checksum-framed snapshot files, with SaveSnap, Load,     *)
(* LoadNewestAvailable and ReleaseSnapDBs as its operations.               *)
(*                                                                         *)
(* File names are sequences of ASCII codes and file contents are sequences *)
(* of bytes, so that formatting, parsing, ordering and the checksum are    *)
(* computed as the code computes them.                                     *)
(*                                                                         *)
(* Specifications: Spec (the calls, one after the other, on a directory of *)
(* snapshots), SpecAux (the same on a directory that also holds the other  *)
(* kinds of files), SpecConc (a SaveSnap and a Load step by step at the    *)
(* same time), SpecRead (readSnap on one file) and SpecName (the file      *)
(* names of two snapshots).                                                *)
(***************************************************************************)
EXTENDS Integers, Sequences, FiniteSets, TLC

(***************************************************************************)
(* Bytes and 32-bit words.  A 32-bit word is the sequence of its bits,     *)
(* least significant first.                                                *)
(***************************************************************************)
Pow2(k) ==
    CASE k = 0 -> 1 [] k = 1 -> 2 [] k = 2 -> 4 [] k = 3 -> 8 [] k = 4 -> 16
      [] k = 5 -> 32 [] k = 6 -> 64 [] k = 7 -> 128 [] k = 8 -> 256

BitsOfByte(v) == [i \in 1..8 |-> (v \div Pow2(i - 1)) % 2]

ByteOfBits(bs) ==
    bs[1] + 2 * bs[2] + 4 * bs[3] + 8 * bs[4]
      + 16 * bs[5] + 32 * bs[6] + 64 * bs[7] + 128 * bs[8]

Zeros(n) == [i \in 1..n |-> 0]

Xor(a, b) == [i \in 1..Len(a) |-> (a[i] + b[i]) % 2]

Not32(a) == [i \in 1..32 |-> 1 - a[i]]

ShiftRight(a, k) == SubSeq(a, k + 1, 32) \o Zeros(k)

WordOfBytes(b) == BitsOfByte(b[1]) \o BitsOfByte(b[2]) \o BitsOfByte(b[3]) \o BitsOfByte(b[4])

IsZeroWord(a) == \A i \in 1..Len(a) : a[i] = 0

(***************************************************************************)
(* hash/crc32 with the Castagnoli polynomial, table driven as in the       *)
(* library: crcTable = MakeTable(Castagnoli), Update(0, crcTable, p).      *)
(***************************************************************************)
Castagnoli == WordOfBytes(<<120, 59, 246, 130>>)    \* 0x82f63b78

RECURSIVE TableEntry(_, _)
TableEntry(crc, n) ==
    IF n = 0 THEN crc
    ELSE TableEntry(IF crc[1] = 1 THEN Xor(ShiftRight(crc, 1), Castagnoli)
                                  ELSE ShiftRight(crc, 1), n - 1)

crcTable == [i \in 0..255 |-> TableEntry(BitsOfByte(i) \o Zeros(24), 8)]

\* One step of the table-driven loop: tab[byte(crc) ^ v] ^ (crc >> 8).
crcStep(crc, v) ==
    Xor(crcTable[ByteOfBits(Xor(SubSeq(crc, 1, 8), BitsOfByte(v)))], ShiftRight(crc, 8))

\* crc32.Update(0, crcTable, p)
crc32Update(p) ==
    LET c[k \in 0..Len(p)] ==
            IF k = 0 THEN Not32(Zeros(32))
            ELSE LET prev == c[k - 1] IN
                 CASE Len(prev) = 32 -> crcStep(prev, p[k])
    IN  Not32(c[Len(p)])

(***************************************************************************)
(* The protocol-buffer encoding (proto3 wire format) of the three messages *)
(* of package snappb that the store serializes.  The schema file is not    *)
(* part of the sources; the field numbers below are those the spec's data  *)
(* model lists, in order: SavedSnapshot{crc = 1, data = 2},                *)
(* Snapshot{data = 1, metadata = 2}, SnapshotMetadata{term = 1, index = 2}.*)
(* An absent metadata (a nil pointer) is Nil; a present one is a sequence  *)
(* of one record.                                                          *)
(***************************************************************************)
Nil == <<>>

Meta(t, i) == <<[term |-> t, index |-> i]>>

Snapshot(d, m) == [data |-> d, metadata |-> m]

RECURSIVE Varint(_)
Varint(n) == IF n < 128 THEN <<n>> ELSE <<128 + (n % 128)>> \o Varint(n \div 128)

Bits7(bs) == ByteOfBits(SubSeq(bs \o Zeros(8), 1, 7) \o <<0>>)

RECURSIVE VarintOfBits(_)
VarintOfBits(bs) ==
    IF Len(bs) <= 7 \/ IsZeroWord(SubSeq(bs, 8, Len(bs)))
    THEN <<Bits7(bs)>>
    ELSE <<128 + Bits7(bs)>> \o VarintOfBits(SubSeq(bs, 8, Len(bs)))

NatOfBits(bs) ==
    LET n[k \in 0..Len(bs)] == IF k = 0 THEN 0 ELSE bs[Len(bs) - k + 1] + 2 * n[k - 1]
    IN  n[Len(bs)]

\* The high zero bits dropped, so that NatOfBits stays in range.
Significant(bs) ==
    LET ones == {k \in 1..Len(bs) : bs[k] = 1} IN
    IF ones = {} THEN <<>> ELSE SubSeq(bs, 1, CHOOSE k \in ones : \A j \in ones : j <= k)

LenDelimited(tag, payload) == <<tag>> \o Varint(Len(payload)) \o payload

MarshalMetadata(m) ==
    (IF m.term # 0 THEN <<8>> \o Varint(m.term) ELSE <<>>)
      \o (IF m.index # 0 THEN <<16>> \o Varint(m.index) ELSE <<>>)

MarshalSnapshot(s) ==
    (IF s.data # <<>> THEN LenDelimited(10, s.data) ELSE <<>>)
      \o (IF s.metadata # Nil THEN LenDelimited(18, MarshalMetadata(s.metadata[1])) ELSE <<>>)

MarshalSavedSnapshot(crc, data) ==
    (IF ~IsZeroWord(crc) THEN <<8>> \o VarintOfBits(crc) ELSE <<>>)
      \o (IF data # <<>> THEN LenDelimited(18, data) ELSE <<>>)

\* A varint read at b[pos]: at most 10 bytes, 7 bits each, low group first.
RECURSIVE ReadVarint(_, _, _)
ReadVarint(b, pos, n) ==
    IF pos > Len(b) \/ n >= 10 THEN [ok |-> FALSE, bits |-> <<>>, next |-> pos]
    ELSE LET low == SubSeq(BitsOfByte(b[pos]), 1, 7) IN
         IF b[pos] < 128 THEN [ok |-> TRUE, bits |-> low, next |-> pos + 1]
         ELSE LET r == ReadVarint(b, pos + 1, n + 1) IN
              [ok |-> r.ok, bits |-> low \o r.bits, next |-> r.next]

\* The fields of a message, in order: [num, wt, bits, bytes].  Wire types 0
\* (varint), 1 (64-bit), 2 (length-delimited) and 5 (32-bit) are read; a
\* truncated field, field number 0 and any other wire type fail the parse.
RECURSIVE ParseFields(_, _)
ParseFields(b, pos) ==
    LET bad == [ok |-> FALSE, fields |-> <<>>]
        Cons(f, rest) ==
            IF rest.ok THEN [ok |-> TRUE, fields |-> <<f>> \o rest.fields] ELSE bad
        \* a value of n bytes at from
        Bytes(num, wt, from, n) ==
            IF from + n - 1 > Len(b) THEN bad
            ELSE Cons([num |-> num, wt |-> wt, bits |-> <<>>,
                       bytes |-> SubSeq(b, from, from + n - 1)], ParseFields(b, from + n))
        Scalar(num, v) ==
            IF ~v.ok THEN bad
            ELSE Cons([num |-> num, wt |-> 0, bits |-> v.bits, bytes |-> <<>>],
                      ParseFields(b, v.next))
        Delimited(num, l) ==
            IF ~l.ok \/ Len(Significant(l.bits)) > 16 THEN bad
            ELSE Bytes(num, 2, l.next, NatOfBits(Significant(l.bits)))
        Value(num, wt, next) ==
            CASE wt = 0 -> Scalar(num, ReadVarint(b, next, 0))
              [] wt = 2 -> Delimited(num, ReadVarint(b, next, 0))
              [] wt = 1 -> Bytes(num, 1, next, 8)
              [] wt = 5 -> Bytes(num, 5, next, 4)
              [] OTHER  -> bad
        Key(wt, nb, next) ==
            IF Len(nb) = 0 \/ Len(nb) > 29 THEN bad ELSE Value(NatOfBits(nb), wt, next)
        Tag(tag) ==
            IF ~tag.ok THEN bad
            ELSE Key(NatOfBits(SubSeq(tag.bits \o Zeros(3), 1, 3)),
                     Significant(SubSeq(tag.bits \o Zeros(3), 4, Len(tag.bits) + 3)),
                     tag.next)
    IN  IF pos > Len(b) THEN [ok |-> TRUE, fields |-> <<>>]
        ELSE Tag(ReadVarint(b, pos, 0))

\* The last field numbered num of wire type wt, or <<>> when there is none.
RECURSIVE LastField(_, _, _)
LastField(fields, num, wt) ==
    IF fields = <<>> THEN <<>>
    ELSE LET f == fields[Len(fields)] IN
         IF f.num = num /\ f.wt = wt THEN <<f>>
         ELSE LastField(SubSeq(fields, 1, Len(fields) - 1), num, wt)

Word32(bits) == SubSeq(bits \o Zeros(32), 1, 32)

UnmarshalSavedSnapshot(b) ==
    LET Fields(c, d) ==
            [ok   |-> TRUE,
             Crc  |-> IF c = <<>> THEN Zeros(32) ELSE Word32(c[1].bits),
             Data |-> IF d = <<>> THEN <<>> ELSE d[1].bytes]
        Message(r) ==
            IF ~r.ok THEN [ok |-> FALSE, Crc |-> Zeros(32), Data |-> <<>>]
            ELSE Fields(LastField(r.fields, 1, 0), LastField(r.fields, 2, 2))
    IN  Message(ParseFields(b, 1))

UnmarshalMetadata(b) ==
    LET Fields(t, i) ==
            [ok |-> TRUE,
             metadata |-> Meta(IF t = <<>> THEN 0 ELSE NatOfBits(Significant(t[1].bits)),
                               IF i = <<>> THEN 0 ELSE NatOfBits(Significant(i[1].bits)))]
        Message(r) ==
            IF ~r.ok THEN [ok |-> FALSE, metadata |-> Nil]
            ELSE Fields(LastField(r.fields, 1, 0), LastField(r.fields, 2, 0))
    IN  Message(ParseFields(b, 1))

UnmarshalSnapshot(b) ==
    LET bad == [ok |-> FALSE, snap |-> Snapshot(<<>>, Nil)]
        Result(d, mm) ==
            IF ~mm.ok THEN bad
            ELSE [ok |-> TRUE,
                  snap |-> Snapshot(IF d = <<>> THEN <<>> ELSE d[1].bytes, mm.metadata)]
        Fields(d, m) ==
            IF m = <<>> THEN Result(d, [ok |-> TRUE, metadata |-> Nil])
            ELSE Result(d, UnmarshalMetadata(m[1].bytes))
        Message(r) ==
            IF ~r.ok THEN bad
            ELSE Fields(LastField(r.fields, 1, 2), LastField(r.fields, 2, 2))
    IN  Message(ParseFields(b, 1))

(***************************************************************************)
(* Strings.  A file name is the sequence of its ASCII codes; the order of  *)
(* names is the byte-wise order sort.StringSlice uses.                     *)
(***************************************************************************)
SnapSuffix   == <<46, 115, 110, 97, 112>>                      \* ".snap"
SnapDBSuffix == <<46, 115, 110, 97, 112, 46, 100, 98>>         \* ".snap.db"
BrokenSuffix == <<46, 98, 114, 111, 107, 101, 110>>            \* ".broken"
TmpPrefix    == <<100, 98, 46, 116, 109, 112>>                 \* "db.tmp"
DBName       == <<100, 98>>                                    \* "db"

HasSuffix(s, suffix) ==
    Len(s) >= Len(suffix) /\ SubSeq(s, Len(s) - Len(suffix) + 1, Len(s)) = suffix

HasPrefix(s, prefix) ==
    Len(s) >= Len(prefix) /\ SubSeq(s, 1, Len(prefix)) = prefix

TrimSuffix(s, suffix) ==
    IF HasSuffix(s, suffix) THEN SubSeq(s, 1, Len(s) - Len(suffix)) ELSE s

\* a < b: at the first place where they differ a has the smaller byte, or a ends.
StrLess(a, b) ==
    \E k \in 1..(Len(b)) :
        /\ k - 1 <= Len(a)
        /\ SubSeq(a, 1, k - 1) = SubSeq(b, 1, k - 1)
        /\ (k > Len(a) \/ a[k] < b[k])

\* The digits of n in base 16, most significant first ("0" for 0).
RECURSIVE HexDigits(_)
HexDigits(n) == IF n < 16 THEN <<n>> ELSE HexDigits(n \div 16) \o <<n % 16>>

HexChar(d) == IF d < 10 THEN 48 + d ELSE 87 + d

\* The verb %016x: lower-case hexadecimal, padded with zeros to HexWidth.
HexWidth == 16

\* A variant of Format016x without the padding (the verb %x).
FormatUnpadded(ds) == IF ds = <<>> THEN <<48>> ELSE [k \in 1..Len(ds) |-> HexChar(ds[k])]

\* The same of a value given by its digits in base 16.
Format016x(ds) ==
    LET cs == [k \in 1..Len(ds) |-> HexChar(ds[k])]
    IN  IF Len(cs) >= HexWidth THEN cs
        ELSE [k \in 1..(HexWidth - Len(cs)) |-> 48] \o cs

Sprintf016x(n) == Format016x(HexDigits(n))

\* fmt.Sprintf("%016x-%016x.snap", term, index)
SnapName(term, index) == Sprintf016x(term) \o <<45>> \o Sprintf016x(index) \o SnapSuffix

\* The same of a term and an index given by their digits in base 16, which
\* reach every 64-bit value.
SnapNameU64(term, index) == Format016x(term) \o <<45>> \o Format016x(index) \o SnapSuffix

(***************************************************************************)
(* strconv.ParseUint(s, 16, 64).  The value is kept as its base-16 digits  *)
(* without leading zeros, so that every 64-bit value is in range of the    *)
(* model; it fails on the empty string, on a character that is no          *)
(* hexadecimal digit, and on a value of more than 64 bits.                 *)
(***************************************************************************)
DigitOf(c) ==
    IF c >= 48 /\ c <= 57 THEN c - 48
    ELSE IF c >= 97 /\ c <= 102 THEN c - 87
    ELSE IF c >= 65 /\ c <= 70 THEN c - 55
    ELSE 16

StripZeros(ds) ==
    LET nz == {k \in 1..Len(ds) : ds[k] # 0} IN
    IF nz = {} THEN <<>> ELSE SubSeq(ds, CHOOSE k \in nz : \A j \in nz : k <= j, Len(ds))

\* A 64-bit value has at most 16 digits in base 16.
U64HexDigits == 16

ParseUint(s) ==
    LET ds == [k \in 1..Len(s) |-> DigitOf(s[k])]
        v  == StripZeros(ds)
    IN  IF s = <<>> \/ \E k \in 1..Len(s) : ds[k] = 16 THEN [ok |-> FALSE, val |-> <<>>]
        ELSE IF Len(v) > U64HexDigits THEN [ok |-> FALSE, val |-> <<>>]
        ELSE [ok |-> TRUE, val |-> v]

\* index as ParseUint would give it.
U64(n) == StripZeros(HexDigits(n))

\* A variant of LessU64 that also holds of equal values (a <= b).
NotGreaterU64(a, b) == Len(a) < Len(b) \/ (Len(a) = Len(b) /\ (a = b \/ StrLess(a, b)))

\* a < b for two 64-bit values.
LessU64(a, b) == Len(a) < Len(b) \/ (Len(a) = Len(b) /\ StrLess(a, b))

(***************************************************************************)
(* The directory: a function from the names of the files in it to their    *)
(* contents.  A file that cannot be read (ioutil.ReadFile fails on it: a   *)
(* directory, a file without read permission) is Unreadable.               *)
(***************************************************************************)
File(b) == [readable |-> TRUE, bytes |-> b]

Unreadable == [readable |-> FALSE, bytes |-> <<>>]

Put(d, n, f) == [m \in DOMAIN d \cup {n} |-> IF m = n THEN f ELSE d[m]]

Remove(d, n) == [m \in DOMAIN d \ {n} |-> d[m]]

\* os.Rename: the file moves to the new name, replacing a file already there.
Rename(d, from, to) ==
    [m \in (DOMAIN d \ {from}) \cup {to} |-> IF m = to THEN d[from] ELSE d[m]]

NoSnap == Snapshot(<<>>, Nil)

\* A variant of decodeSnap that does not compare the checksums.
decodeSnapUnchecked(b) ==
    LET Payload(sn) ==
            IF ~sn.ok THEN [snap |-> NoSnap, err |-> "ErrUnmarshal"]
            ELSE [snap |-> sn.snap, err |-> "nil"]
        Envelope(serializedSnap) ==
            IF ~serializedSnap.ok THEN [snap |-> NoSnap, err |-> "ErrUnmarshal"]
            ELSE IF Len(serializedSnap.Data) = 0 \/ IsZeroWord(serializedSnap.Crc)
            THEN [snap |-> NoSnap, err |-> "ErrEmptySnapshot"]
            ELSE Payload(UnmarshalSnapshot(serializedSnap.Data))
    IN  IF Len(b) = 0 THEN [snap |-> NoSnap, err |-> "ErrEmptySnapshot"]
        ELSE Envelope(UnmarshalSavedSnapshot(b))

\* A variant of decodeSnap that compares the checksums before it looks for an
\* empty payload and a zero checksum.
decodeSnapCrcFirst(b) ==
    LET Payload(sn) ==
            IF ~sn.ok THEN [snap |-> NoSnap, err |-> "ErrUnmarshal"]
            ELSE [snap |-> sn.snap, err |-> "nil"]
        Envelope(serializedSnap) ==
            IF ~serializedSnap.ok THEN [snap |-> NoSnap, err |-> "ErrUnmarshal"]
            ELSE IF crc32Update(serializedSnap.Data) # serializedSnap.Crc
            THEN [snap |-> NoSnap, err |-> "ErrCRCMismatch"]
            ELSE IF Len(serializedSnap.Data) = 0 \/ IsZeroWord(serializedSnap.Crc)
            THEN [snap |-> NoSnap, err |-> "ErrEmptySnapshot"]
            ELSE Payload(UnmarshalSnapshot(serializedSnap.Data))
    IN  IF Len(b) = 0 THEN [snap |-> NoSnap, err |-> "ErrEmptySnapshot"]
        ELSE Envelope(UnmarshalSavedSnapshot(b))

(***************************************************************************)
(* readSnap, after the file has been read: the errors are the three the    *)
(* package declares and the one of decoding a message.                     *)
(***************************************************************************)
decodeSnap(b) ==
    LET Payload(sn) ==
            IF ~sn.ok THEN [snap |-> NoSnap, err |-> "ErrUnmarshal"]
            ELSE [snap |-> sn.snap, err |-> "nil"]
        Envelope(serializedSnap) ==
            IF ~serializedSnap.ok THEN [snap |-> NoSnap, err |-> "ErrUnmarshal"]
            ELSE IF Len(serializedSnap.Data) = 0 \/ IsZeroWord(serializedSnap.Crc)
            THEN [snap |-> NoSnap, err |-> "ErrEmptySnapshot"]
            ELSE IF crc32Update(serializedSnap.Data) # serializedSnap.Crc
            THEN [snap |-> NoSnap, err |-> "ErrCRCMismatch"]
            ELSE Payload(UnmarshalSnapshot(serializedSnap.Data))
    IN  IF Len(b) = 0 THEN [snap |-> NoSnap, err |-> "ErrEmptySnapshot"]
        ELSE Envelope(UnmarshalSavedSnapshot(b))

(***************************************************************************)
(* save, up to the write (lines 68-78): the file name and the framed bytes.*)
(* proto.Marshal does not fail on these messages, so the two panics of     *)
(* save are not reachable.                                                 *)
(***************************************************************************)
frame(snapshot) ==
    LET b == MarshalSnapshot(snapshot) IN MarshalSavedSnapshot(crc32Update(b), b)

(***************************************************************************)
(* The bounds of the model and the values the operations are called with.  *)
(***************************************************************************)
MaxTerm == 1
MaxIndex == 2
MaxFiles == 2
MaxFaults == 1
MaxMarkers == 2

Terms == 0..MaxTerm
Indices == 0..MaxIndex

\* With term 1 and index 1 this data makes a payload whose CRC-32C is 0.
ZeroCrcData == <<116, 83, 152, 82>>

Datas == {<<>>, ZeroCrcData}

Metas == {Meta(t, i) : t \in Terms, i \in Indices}

Snapshots == {Snapshot(d, m) : d \in Datas, m \in Metas \cup {Nil}}

Persistable == {s \in Snapshots : s.metadata # Nil /\ s.metadata[1].index # 0}

Frames == [s \in Persistable |-> frame(s)]

Written == {Frames[s] : s \in Persistable}

\* The markers of the log: those of the latest term.
Markers == {[term |-> MaxTerm, index |-> i] : i \in Indices \ {0}}

WalSnaps == UNION {[1..n -> Markers] : n \in 0..MaxMarkers}

(***************************************************************************)
(* What the environment can leave in a snapshot file: a torn write (a      *)
(* prefix of the bytes), a flipped bit, a zeroed checksum, and well-framed *)
(* files that hold something else than a snapshot with metadata.           *)
(***************************************************************************)
FlipBit(b, pos, bit) ==
    [b EXCEPT ![pos] = IF (b[pos] \div Pow2(bit)) % 2 = 1
                       THEN b[pos] - Pow2(bit) ELSE b[pos] + Pow2(bit)]

ZeroChecksum(b) == MarshalSavedSnapshot(Zeros(32), UnmarshalSavedSnapshot(b).Data)

Framed(p) == MarshalSavedSnapshot(crc32Update(p), p)

NoMetadataFile == Framed(MarshalSnapshot(Snapshot(<<7>>, Nil)))

NotASnapshotFile == Framed(<<255>>)

Tampered(b) ==
    {<<>>, SubSeq(b, 1, Len(b) - 1), FlipBit(b, Len(b), 0),
     ZeroChecksum(b), NoMetadataFile, NotASnapshotFile}

Contents == UNION {{b} \cup Tampered(b) : b \in Written}

\* decodeSnap of every content of the model, computed once.
Decoded == [b \in Contents |-> decodeSnap(b)]

readSnap(d, snapname) ==
    IF snapname \notin DOMAIN d \/ ~d[snapname].readable
    THEN [snap |-> NoSnap, err |-> "ErrReadFile"]
    ELSE Decoded[d[snapname].bytes]

\* loadSnap; renameFails is the set of names on which os.Rename fails.
loadSnap(d, name, renameFails) ==
    LET Result(r, renamed) ==
            [dir  |-> IF renamed THEN Rename(d, name, name \o BrokenSuffix) ELSE d,
             snap |-> r.snap,
             err  |-> r.err,
             renamed |-> renamed]
        Read(r) == Result(r, r.err # "nil" /\ name \in DOMAIN d /\ name \notin renameFails)
    IN  Read(readSnap(d, name))

(***************************************************************************)
(* The predicate of loadMatched: the one of Load accepts every snapshot,   *)
(* the one of LoadNewestAvailable looks the metadata up in walSnaps, from  *)
(* the end.  It reads the fields of the metadata inside the loop, so on a  *)
(* snapshot without metadata it dereferences a nil pointer (a panic) as    *)
(* soon as the loop runs once.                                             *)
(***************************************************************************)
MatchAll == [all |-> TRUE, walSnaps |-> <<>>]

MatchWal(walSnaps) == [all |-> FALSE, walSnaps |-> walSnaps]

RECURSIVE walLoop(_, _, _)
walLoop(m, walSnaps, i) ==
    IF i < 1 THEN "false"
    ELSE IF m = Nil THEN "panic"
    ELSE IF m[1].term = walSnaps[i].term /\ m[1].index = walSnaps[i].index THEN "true"
    ELSE walLoop(m, walSnaps, i - 1)

matchFn(f, snapshot) ==
    IF f.all THEN "true" ELSE walLoop(snapshot.metadata, f.walSnaps, Len(f.walSnaps))

\* A variant of cleanupSnapdir that goes on when a file cannot be removed.
RECURSIVE cleanupIgnoresFailure(_, _, _, _, _)
cleanupIgnoresFailure(d, filenames, k, names, removal) ==
    IF k > Len(filenames) THEN [dir |-> d, names |-> names, err |-> "nil"]
    ELSE LET filename == filenames[k] IN
         IF HasPrefix(filename, TmpPrefix)
         THEN cleanupIgnoresFailure(IF removal[filename] = "eperm" THEN d ELSE Remove(d, filename),
                                    filenames, k + 1, names, removal)
         ELSE cleanupIgnoresFailure(d, filenames, k + 1, Append(names, filename), removal)

\* A variant of cleanupSnapdir that leaves the files of a crash in place.
cleanupKeepsOrphans(d, filenames, k, names, removal) ==
    [dir |-> d,
     names |-> SelectSeq(filenames, LAMBDA n : ~HasPrefix(n, TmpPrefix)),
     err |-> "nil"]

(***************************************************************************)
(* cleanupSnapdir, checkSuffix, the sort and snapnames.  removal gives, for*)
(* each name, what os.Remove does on it: "ok"; "enoent" (the file went     *)
(* away after the listing: IsNotExist); "eperm" (any other failure, the    *)
(* file stays).                                                            *)
(***************************************************************************)
RECURSIVE cleanupSnapdir(_, _, _, _, _)
cleanupSnapdir(d, filenames, k, names, removal) ==
    IF k > Len(filenames) THEN [dir |-> d, names |-> names, err |-> "nil"]
    ELSE LET filename == filenames[k] IN
         IF HasPrefix(filename, TmpPrefix)
         THEN IF removal[filename] = "eperm"
              THEN [dir |-> d, names |-> names, err |-> "ErrRemoveOrphan"]
              ELSE cleanupSnapdir(Remove(d, filename), filenames, k + 1, names, removal)
         ELSE cleanupSnapdir(d, filenames, k + 1, Append(names, filename), removal)

\* A variant of checkSuffix that also takes the quarantined files.
checkSuffixBroken(filenames) ==
    SelectSeq(filenames, LAMBDA n : HasSuffix(n, SnapSuffix) \/ HasSuffix(n, BrokenSuffix))

\* A variant of checkSuffix that takes every name for a snapshot.
checkSuffixAny(filenames) == filenames

checkSuffix(filenames) == SelectSeq(filenames, LAMBDA n : HasSuffix(n, SnapSuffix))

\* A variant of SortReverse that puts the least name first.
RECURSIVE SortForward(_)
SortForward(snaps) ==
    IF snaps = <<>> THEN <<>>
    ELSE LET k == CHOOSE i \in 1..Len(snaps) :
                      \A j \in 1..Len(snaps) : j = i \/ ~StrLess(snaps[j], snaps[i])
         IN  <<snaps[k]>> \o SortForward(SubSeq(snaps, 1, k - 1) \o SubSeq(snaps, k + 1, Len(snaps)))

\* sort.Sort(sort.Reverse(sort.StringSlice(snaps))): greatest name first.
RECURSIVE SortReverse(_)
SortReverse(snaps) ==
    IF snaps = <<>> THEN <<>>
    ELSE LET k == CHOOSE i \in 1..Len(snaps) :
                      \A j \in 1..Len(snaps) : j = i \/ ~StrLess(snaps[i], snaps[j])
         IN  <<snaps[k]>> \o SortReverse(SubSeq(snaps, 1, k - 1) \o SubSeq(snaps, k + 1, Len(snaps)))

\* filenames is what Readdirnames returned: the names of d in some order.
snapnames(d, filenames, removal) ==
    LET Snaps(c, snaps) ==
            IF Len(snaps) = 0 THEN [dir |-> c.dir, names |-> <<>>, err |-> "ErrNoSnapshot"]
            ELSE [dir |-> c.dir, names |-> SortReverse(snaps), err |-> "nil"]
        Cleaned(c) ==
            IF c.err # "nil" THEN [dir |-> c.dir, names |-> <<>>, err |-> c.err]
            ELSE Snaps(c, checkSuffix(c.names))
    IN  Cleaned(cleanupSnapdir(d, filenames, 1, <<>>, removal))

(***************************************************************************)
(* loadMatched.  reads records each call of loadSnap: the name, the error  *)
(* and whether the file was renamed.                                       *)
(***************************************************************************)
RECURSIVE loadLoop(_, _, _, _, _, _)
loadLoop(d, names, k, f, renameFails, reads) ==
    LET Matched(r, rs, m) ==
            IF m = "panic" THEN [dir |-> r.dir, snap |-> NoSnap, err |-> "panic", reads |-> rs]
            ELSE IF m = "true" THEN [dir |-> r.dir, snap |-> r.snap, err |-> "nil", reads |-> rs]
            ELSE loadLoop(r.dir, names, k + 1, f, renameFails, rs)
        Loaded(r) ==
            Matched(r, Append(reads, [name |-> names[k], err |-> r.err, renamed |-> r.renamed]),
                    IF r.err = "nil" THEN matchFn(f, r.snap) ELSE "false")
    IN  IF k > Len(names)
        THEN [dir |-> d, snap |-> NoSnap, err |-> "ErrNoSnapshot", reads |-> reads]
        ELSE Loaded(loadSnap(d, names[k], renameFails))

loadMatched(d, f, filenames, removal, renameFails) ==
    LET Names(n) ==
            IF n.err # "nil" THEN [dir |-> n.dir, snap |-> NoSnap, err |-> n.err, reads |-> <<>>]
            ELSE loadLoop(n.dir, n.names, 1, f, renameFails, <<>>)
    IN  Names(snapnames(d, filenames, removal))

(***************************************************************************)
(* WriteAndSyncFile of package ioutil (not part of the sources): it opens  *)
(* the file for writing, truncating it, writes and syncs.  w is what       *)
(* happens: "ok"; "open" (the file could not be opened: nothing changes);  *)
(* "short" (an error after n bytes reached the file, n = Len(b) when only  *)
(* the sync failed).                                                       *)
(***************************************************************************)
WriteAndSyncFile(d, path, b, w) ==
    CASE w.kind = "ok"    -> [dir |-> Put(d, path, File(b)), err |-> "nil"]
      [] w.kind = "open"  -> [dir |-> d, err |-> "ErrWrite"]
      [] w.kind = "short" -> [dir |-> Put(d, path, File(SubSeq(b, 1, w.n))), err |-> "ErrWrite"]

\* The short writes: nothing, all but the last byte, all of it.
WriteOutcomes(b) ==
    {[kind |-> "ok", n |-> Len(b)], [kind |-> "open", n |-> 0]}
      \cup {[kind |-> "short", n |-> n] : n \in {0, Len(b) - 1, Len(b)}}

\* A variant of save that leaves the file in place when the write has failed.
saveKeepsPartial(d, snapshot, w, removeFails) ==
    LET Write(fname, wr) ==
            [dir  |-> wr.dir,
             err  |-> wr.err,
             rerr |-> IF wr.err = "nil" THEN "none"
                      ELSE IF fname \notin DOMAIN wr.dir THEN "ENOENT"
                      ELSE IF removeFails THEN "EPERM" ELSE "nil"]
        Name(fname) == Write(fname, WriteAndSyncFile(d, fname, Frames[snapshot], w))
    IN  Name(SnapName(snapshot.metadata[1].term, snapshot.metadata[1].index))

\* save; removeFails: os.Remove of the file just written fails.  rerr is the
\* error of that removal ("none" when it was not attempted).
save(d, snapshot, w, removeFails) ==
    LET Outcome(fname, wr, rerr) ==
            IF wr.err # "nil"
            THEN [dir  |-> IF rerr = "nil" THEN Remove(wr.dir, fname) ELSE wr.dir,
                  err  |-> wr.err,
                  rerr |-> rerr]
            ELSE [dir |-> wr.dir, err |-> "nil", rerr |-> "none"]
        Write(fname, wr) ==
            Outcome(fname, wr, IF fname \notin DOMAIN wr.dir THEN "ENOENT"
                               ELSE IF removeFails THEN "EPERM" ELSE "nil")
        Name(fname) == Write(fname, WriteAndSyncFile(d, fname, Frames[snapshot], w))
    IN  Name(SnapName(snapshot.metadata[1].term, snapshot.metadata[1].index))

\* A variant of SaveSnap that skips only the snapshots without metadata.
SaveSnapIndexZero(d, snapshot, w, removeFails) ==
    IF snapshot.metadata = Nil THEN [dir |-> d, err |-> "nil", rerr |-> "none"]
    ELSE IF snapshot.metadata[1].index = 0
    THEN [dir  |-> Put(d, SnapName(snapshot.metadata[1].term, 0), File(frame(snapshot))),
          err  |-> "nil",
          rerr |-> "none"]
    ELSE save(d, snapshot, w, removeFails)

SaveSnap(d, snapshot, w, removeFails) ==
    IF snapshot.metadata = Nil \/ snapshot.metadata[1].index = 0
    THEN [dir |-> d, err |-> "nil", rerr |-> "none"]
    ELSE save(d, snapshot, w, removeFails)

(***************************************************************************)
(* ReleaseSnapDBs.  filepath.Base gives the part of the name after the     *)
(* last separator ("." for the empty name).  The index of the snapshot is  *)
(* read only when a name has parsed, so a snapshot without metadata makes  *)
(* the call panic there and nowhere else.                                  *)
(***************************************************************************)
Base(path) ==
    LET seps == {k \in 1..Len(path) : path[k] = 47} IN
    IF path = <<>> THEN <<46>>
    ELSE IF seps = {} THEN path
    ELSE SubSeq(path, (CHOOSE k \in seps : \A j \in seps : j <= k) + 1, Len(path))

\* removeFails: the names on which os.Remove fails, the file staying in place;
\* failed collects the removals that did fail (each one is logged).
RECURSIVE releaseLoop(_, _, _, _, _, _)
releaseLoop(d, filenames, k, snap, removeFails, failed) ==
    IF k > Len(filenames) THEN [dir |-> d, err |-> "nil", failed |-> failed]
    ELSE
    LET filename == filenames[k]
        hexIndex == TrimSuffix(Base(filename), SnapDBSuffix)
        index    == ParseUint(hexIndex)
    IN  IF ~HasSuffix(filename, SnapDBSuffix) \/ ~index.ok
        THEN releaseLoop(d, filenames, k + 1, snap, removeFails, failed)
        ELSE IF snap.metadata = Nil THEN [dir |-> d, err |-> "panic", failed |-> failed]
        ELSE IF ~LessU64(index.val, U64(snap.metadata[1].index))
        THEN releaseLoop(d, filenames, k + 1, snap, removeFails, failed)
        ELSE IF filename \in removeFails
        THEN releaseLoop(d, filenames, k + 1, snap, removeFails, failed \cup {filename})
        ELSE releaseLoop(Remove(d, filename), filenames, k + 1, snap, removeFails, failed)

ReleaseSnapDBs(d, snap, filenames, removeFails) ==
    releaseLoop(d, filenames, 1, snap, removeFails, {})

(***************************************************************************)
(* The state: the directory; last, the latest call with its arguments and  *)
(* its results; faults, the number of times the environment has damaged a  *)
(* file or failed a write; run, the calls in progress when a SaveSnap and  *)
(* a Load run at the same time (SpecConc), Idle otherwise.                 *)
(***************************************************************************)
VARIABLES dir, last, faults, run

vars == <<dir, last, faults, run>>

\* rpc, wpc: where the reader and the writer are; names, k, reads: the list of
\* loadMatched, the place of its loop and the files read so far; wsnap: the
\* snapshot being saved; saved: the names of the files that a successful
\* SaveSnap has written and that are still as written; by: who stepped last.
Idle ==
    [rpc |-> "idle", names |-> <<>>, k |-> 0, reads |-> <<>>,
     wpc |-> "idle", wsnap |-> [data |-> <<>>, metadata |-> <<>>],
     saved |-> {}, by |-> "none"]

\* write: what the write of a SaveSnap did ("none" when nothing was written);
\* rerr: the error of the removals of the call ("none" when there was none).
Call(op, snap, walSnaps, err, ret, reads, write, rerr, failed) ==
    [op |-> op, snap |-> snap, walSnaps |-> walSnaps, err |-> err, ret |-> ret,
     reads |-> reads, write |-> write, rerr |-> rerr, failed |-> failed]

Candidates(d) == {n \in DOMAIN d : HasSuffix(n, SnapSuffix)}

Orphans(d) == {n \in DOMAIN d : HasPrefix(n, TmpPrefix)}

SnapDBs(d) == {n \in DOMAIN d : HasSuffix(n, SnapDBSuffix)}

RECURSIVE SeqOfSet(_)
SeqOfSet(S) ==
    IF S = {} THEN <<>> ELSE LET x == CHOOSE y \in S : TRUE IN <<x>> \o SeqOfSet(S \ {x})

Orders(S) ==
    {p \in [1..Cardinality(S) -> S] : \A i, j \in 1..Cardinality(S) : p[i] = p[j] => i = j}

\* Readdirnames(-1): the names in directory order, which is not specified.  The
\* order is used only by cleanupSnapdir, which stops at the first orphan it
\* cannot remove; the orphans come in every order, the other names (which are
\* filtered and sorted, or handled one by one) in one.
Readdirnames(d) == {p \o SeqOfSet(DOMAIN d \ Orphans(d)) : p \in Orders(Orphans(d))}

RemoveOutcomes == {"ok", "enoent", "eperm"}

\* What the removals of cleanupSnapdir met, in the words of rerr: "none" (no
\* name starts with db.tmp), "EPERM" (a removal failed: the loop goes through
\* the names until one does), else "ENOENT" (a file was gone already), else
\* "nil".
RemovalError(d, removal) ==
    IF Orphans(d) = {} THEN "none"
    ELSE IF \E n \in Orphans(d) : removal[n] = "eperm" THEN "EPERM"
    ELSE IF \E n \in Orphans(d) : removal[n] = "enoent" THEN "ENOENT"
    ELSE "nil"

(***************************************************************************)
(* The operations as actions.  Each is given the values it may be called   *)
(* with; the failures of the file system (a write, a removal, a rename     *)
(* that fails) are chosen freely.  The directory itself exists and can be  *)
(* listed: os.Open and Readdirnames succeed.                               *)
(***************************************************************************)
\* The candidates a load would fail to read: a rename can fail only on these.
Rejected(d) == {n \in Candidates(d) : readSnap(d, n).err # "nil"}

DoSaveSnap(snapshots) ==
    \E s \in snapshots :
      \E w \in (IF s \in Persistable THEN WriteOutcomes(Frames[s]) ELSE {[kind |-> "ok", n |-> 0]}) :
       \E removeFails \in (IF w.kind = "ok" THEN {FALSE} ELSE BOOLEAN) :
        LET Returns(r) ==
                /\ Cardinality(Candidates(r.dir)) <= MaxFiles
                /\ dir' = r.dir
                /\ last' = Call("SaveSnap", s, <<>>, r.err, NoSnap, <<>>,
                                IF s \in Persistable THEN w.kind ELSE "none", r.rerr, {})
        IN  /\ w.kind # "ok" => faults < MaxFaults
            /\ Returns(SaveSnap(dir, s, w, removeFails))
            /\ faults' = IF w.kind = "ok" THEN faults ELSE faults + 1
            /\ UNCHANGED run

DoLoad ==
    \E filenames \in Readdirnames(dir), removal \in [Orphans(dir) -> RemoveOutcomes],
       renameFails \in SUBSET Rejected(dir) :
        LET Returns(r) ==
                /\ dir' = r.dir
                /\ last' = Call("Load", NoSnap, <<>>, r.err, r.snap, r.reads, "none",
                                RemovalError(dir, removal), {})
        IN  /\ Returns(loadMatched(dir, MatchAll, filenames, removal, renameFails))
            /\ UNCHANGED <<faults, run>>

DoLoadNewestAvailable(walSnapsSet) ==
    \E walSnaps \in walSnapsSet, filenames \in Readdirnames(dir),
       removal \in [Orphans(dir) -> RemoveOutcomes], renameFails \in SUBSET Rejected(dir) :
        LET Returns(r) ==
                /\ dir' = r.dir
                /\ last' = Call("LoadNewestAvailable", NoSnap, walSnaps, r.err, r.snap,
                                r.reads, "none", RemovalError(dir, removal), {})
        IN  /\ Returns(loadMatched(dir, MatchWal(walSnaps), filenames, removal, renameFails))
            /\ UNCHANGED <<faults, run>>

DoReleaseSnapDBs(snapshots) ==
    \E snap \in snapshots, filenames \in Readdirnames(dir) :
      \* os.Remove can fail only on the names it is called on
      \E removeFails \in SUBSET (DOMAIN dir \ DOMAIN ReleaseSnapDBs(dir, snap, filenames, {}).dir) :
        LET Returns(r) ==
                /\ dir' = r.dir
                /\ last' = Call("ReleaseSnapDBs", snap, <<>>, r.err, NoSnap, <<>>,
                                "none", "none", r.failed)
        IN  /\ Returns(ReleaseSnapDBs(dir, snap, filenames, removeFails))
            /\ UNCHANGED <<faults, run>>

\* The environment damages a snapshot file that was written whole.
Tamper ==
    \E n \in Candidates(dir) :
        /\ faults < MaxFaults
        /\ dir[n].readable /\ dir[n].bytes \in Written
        /\ \E c \in {File(b) : b \in Tampered(dir[n].bytes)} \cup {Unreadable} :
              dir' = Put(dir, n, c)
        /\ faults' = faults + 1
        /\ last' = Call("Tamper", NoSnap, <<>>, "nil", NoSnap, <<>>, "none", "none", {})
        /\ UNCHANGED run

(***************************************************************************)
(* Spec: the store on a directory that holds, besides its snapshots, the   *)
(* file db.                                                                *)
(***************************************************************************)
NoCall == Call("Init", NoSnap, <<>>, "nil", NoSnap, <<>>, "none", "none", {})

Init ==
    /\ dir = [n \in {DBName} |-> File(<<>>)]
    /\ last = NoCall
    /\ faults = 0
    /\ run = Idle

Next ==
    \/ DoSaveSnap(Snapshots)
    \/ DoLoad
    \/ DoLoadNewestAvailable(WalSnaps)
    \/ Tamper

Spec == Init /\ [][Next]_vars

(***************************************************************************)
(* SpecAux: the store on a directory that also holds files left by a       *)
(* crash (the names start with db.tmp), snapshot databases (<index in      *)
(* hexadecimal>.snap.db, and names with that suffix that are no index), a  *)
(* quarantined file and a file of another program; or it is empty at      *)
(* first.  The snapshots saved and released are those of the latest term   *)
(* with no data.                                                           *)
(***************************************************************************)
SnapDBName(index) == Sprintf016x(index) \o SnapDBSuffix

OrphanNames == {TmpPrefix, TmpPrefix \o <<49>>}

\* a.snap.db (index 10, written without padding), 1g.snap.db, .snap.db and
\* 10000000000000000.snap.db (2^64): the last three are no 64-bit index.
OddSnapDBNames ==
    {<<97>> \o SnapDBSuffix, <<49, 103>> \o SnapDBSuffix, SnapDBSuffix,
     <<49>> \o Sprintf016x(0) \o SnapDBSuffix}

\* <the name of the first snapshot of the latest term>.broken and notes.txt
OtherNames ==
    {SnapName(MaxTerm, 1) \o BrokenSuffix, <<110, 111, 116, 101, 115, 46, 116, 120, 116>>}

AuxNames ==
    {DBName} \cup OrphanNames \cup {SnapDBName(i) : i \in Indices} \cup OddSnapDBNames
      \cup OtherNames

AuxSnapshots == {Snapshot(<<>>, m) : m \in {Meta(MaxTerm, i) : i \in Indices} \cup {Nil}}

\* The directory is empty, or holds one file of each of these names.
InitAux ==
    /\ dir \in {[n \in names |-> File(<<>>)] : names \in {{}, AuxNames}}
    /\ last = NoCall
    /\ faults = 0
    /\ run = Idle

AuxWalSnaps == {<<>>, <<[term |-> MaxTerm, index |-> MaxIndex]>>}

NextAux ==
    \/ DoSaveSnap(AuxSnapshots)
    \/ DoLoad
    \/ DoLoadNewestAvailable(AuxWalSnaps)
    \/ DoReleaseSnapDBs(AuxSnapshots)
    \/ Tamper

SpecAux == InitAux /\ [][NextAux]_vars

(***************************************************************************)
(* SpecConc: one writer in SaveSnap and one reader in Load on the same     *)
(* directory, each call taken one file-system step at a time.  The steps   *)
(* of Load are the listing (snapnames), the read of a candidate (readSnap) *)
(* and the rename of one that failed (os.Rename in loadSnap); those of     *)
(* SaveSnap are the write and, after a failed write, the removal.  The     *)
(* write is atomic: it puts the whole file at the path or, when it fails,  *)
(* leaves the path as it was.  A call starts again when it has returned.   *)
(* The directory holds db and, at first, up to one file for each index of  *)
(* the latest term: a saved snapshot, or one that lost its last byte       *)
(* before the calls began.                                                 *)
(***************************************************************************)
ConcSnapshots == {s \in Snapshots : s.metadata # Nil /\ s.metadata[1].term = MaxTerm}

ConcNames == {SnapName(MaxTerm, i) : i \in Indices \ {0}}

\* What a file named n holds at first.
ConcContents(n) ==
    LET b == Frames[Snapshot(<<>>, Meta(MaxTerm, CHOOSE i \in Indices : SnapName(MaxTerm, i) = n))]
    IN  {File(b), File(SubSeq(b, 1, Len(b) - 1))}

ConcDirs ==
    UNION {[names \cup {DBName} -> UNION {ConcContents(n) : n \in names} \cup {File(<<>>)}]
             : names \in SUBSET ConcNames}

InitConc ==
    /\ dir \in {d \in ConcDirs : /\ d[DBName] = File(<<>>)
                                /\ \A n \in DOMAIN d \ {DBName} : d[n] \in ConcContents(n)}
    /\ last = NoCall
    /\ faults = 0
    /\ run = Idle

\* The atomic write: all of the file or nothing.
AtomicOutcomes == {[kind |-> "ok", n |-> 0], [kind |-> "open", n |-> 0]}

\* SaveSnap up to the return of WriteAndSyncFile (lines 59-86).
WriterWrite ==
    /\ run.wpc \in {"idle", "done"}
    /\ \E s \in ConcSnapshots, w \in AtomicOutcomes :
         LET fname == SnapName(s.metadata[1].term, s.metadata[1].index)
             Wrote(wr) ==
                 /\ dir' = wr.dir
                 /\ IF wr.err = "nil"
                    THEN /\ run' = [run EXCEPT !.wpc = "done", !.wsnap = s, !.by = "writer",
                                               !.saved = @ \cup {fname}]
                         /\ last' = Call("SaveSnap", s, <<>>, "nil", NoSnap, <<>>, "ok", "none", {})
                    ELSE /\ run' = [run EXCEPT !.wpc = "remove", !.wsnap = s, !.by = "writer"]
                         /\ UNCHANGED last
         IN  IF s.metadata[1].index = 0
             THEN /\ w.kind = "ok"
                  /\ run' = [run EXCEPT !.wpc = "done", !.wsnap = s, !.by = "writer"]
                  /\ last' = Call("SaveSnap", s, <<>>, "nil", NoSnap, <<>>, "none", "none", {})
                  /\ UNCHANGED <<dir, faults>>
             ELSE /\ w.kind # "ok" => faults < MaxFaults
                  /\ Wrote(WriteAndSyncFile(dir, fname, Frames[s], w))
                  /\ faults' = IF w.kind = "ok" THEN faults ELSE faults + 1

\* SaveSnap after a failed write: os.Remove(spath) and the return (lines 87-93).
WriterRemove ==
    /\ run.wpc = "remove"
    /\ \E removeFails \in BOOLEAN :
         LET fname == SnapName(run.wsnap.metadata[1].term, run.wsnap.metadata[1].index)
             rerr  == IF fname \notin DOMAIN dir THEN "ENOENT"
                      ELSE IF removeFails THEN "EPERM" ELSE "nil"
         IN  /\ dir' = IF rerr = "nil" THEN Remove(dir, fname) ELSE dir
             /\ run' = [run EXCEPT !.wpc = "done", !.by = "writer",
                                   !.saved = IF rerr = "nil" THEN @ \ {fname} ELSE @]
             /\ last' = Call("SaveSnap", run.wsnap, <<>>, "ErrWrite", NoSnap, <<>>,
                             "open", rerr, {})
    /\ UNCHANGED faults

\* Load up to the return of snapnames (lines 116-119).
ReaderList ==
    /\ run.rpc \in {"idle", "done"}
    /\ \E filenames \in Readdirnames(dir), removal \in [Orphans(dir) -> RemoveOutcomes] :
         LET Listed(n) ==
                 /\ dir' = n.dir
                 /\ IF n.err # "nil"
                    THEN /\ run' = [run EXCEPT !.rpc = "done", !.names = <<>>, !.k = 0,
                                               !.reads = <<>>, !.by = "reader"]
                         /\ last' = Call("Load", NoSnap, <<>>, n.err, NoSnap, <<>>,
                                         "none", "none", {})
                    ELSE /\ run' = [run EXCEPT !.rpc = "read", !.names = n.names, !.k = 1,
                                               !.reads = <<>>, !.by = "reader"]
                         /\ UNCHANGED last
         IN  Listed(snapnames(dir, filenames, removal))
    /\ UNCHANGED faults

\* readSnap of the candidate at k (line 131), and the return of Load when it
\* is read well (lines 122-124: the predicate of Load accepts it).
ReaderRead ==
    /\ run.rpc = "read"
    /\ LET Read(r, rs) ==
               IF r.err = "nil" /\ matchFn(MatchAll, r.snap) = "true"
               THEN /\ run' = [run EXCEPT !.rpc = "done", !.reads = rs, !.by = "reader"]
                    /\ last' = Call("Load", NoSnap, <<>>, "nil", r.snap, rs, "none", "none", {})
               ELSE /\ run' = [run EXCEPT !.rpc = "rename", !.reads = rs, !.by = "reader"]
                    /\ UNCHANGED last
           Result(r) ==
               Read(r, Append(run.reads, [name |-> run.names[run.k], err |-> r.err,
                                          renamed |-> FALSE]))
       IN  Result(readSnap(dir, run.names[run.k]))
    /\ UNCHANGED <<dir, faults>>

\* os.Rename of the candidate that failed (line 135), then the next turn of
\* the loop or, after the last candidate, the return (line 126).
ReaderRename ==
    /\ run.rpc = "rename"
    /\ \E renameFails \in BOOLEAN :
         LET name    == run.names[run.k]
             renamed == name \in DOMAIN dir /\ ~renameFails
             rs      == [run.reads EXCEPT ![Len(run.reads)].renamed = renamed]
         IN  /\ dir' = IF renamed THEN Rename(dir, name, name \o BrokenSuffix) ELSE dir
             /\ IF run.k < Len(run.names)
                THEN /\ run' = [run EXCEPT !.rpc = "read", !.k = @ + 1, !.reads = rs,
                                           !.by = "reader",
                                           !.saved = IF renamed THEN @ \ {name} ELSE @]
                     /\ UNCHANGED last
                ELSE /\ run' = [run EXCEPT !.rpc = "done", !.reads = rs, !.by = "reader",
                                           !.saved = IF renamed THEN @ \ {name} ELSE @]
                     /\ last' = Call("Load", NoSnap, <<>>, "ErrNoSnapshot", NoSnap, rs,
                                     "none", "none", {})
    /\ UNCHANGED faults

NextConc ==
    \/ WriterWrite
    \/ WriterRemove
    \/ ReaderList
    \/ ReaderRead
    \/ ReaderRename

SpecConc == InitConc /\ [][NextConc]_vars

(***************************************************************************)
(* SpecRead: readSnap on one file.  The file holds an envelope made of a   *)
(* payload (none, a serialized snapshot, bytes that are no message) and a  *)
(* checksum (zero, the CRC of the payload, the CRC with a bit flipped), or *)
(* such an envelope cut short or with a bit flipped, or nothing; or it     *)
(* cannot be read.                                                         *)
(***************************************************************************)
ReadPayloads ==
    {MarshalSnapshot(sn) : sn \in Snapshots} \cup {<<255>>, <<10, 5, 1>>, <<18, 1, 255>>}

ReadChecksums(p) ==
    {Zeros(32), crc32Update(p), [crc32Update(p) EXCEPT ![1] = 1 - @]}

ReadEnvelopes == UNION {{MarshalSavedSnapshot(c, p) : c \in ReadChecksums(p)} : p \in ReadPayloads}

ReadInputs ==
    ReadEnvelopes
      \cup {SubSeq(b, 1, Len(b) - 1) : b \in ReadEnvelopes \ {<<>>}}
      \cup {FlipBit(b, Len(b), 0) : b \in ReadEnvelopes \ {<<>>}}

ReadName == SnapName(MaxTerm, 1)

InitRead ==
    /\ dir \in {[n \in {ReadName} |-> f] : f \in {File(b) : b \in ReadInputs} \cup {Unreadable}}
    /\ last = NoCall
    /\ faults = 0
    /\ run = Idle

\* readSnap(snapname): ioutil.ReadFile, then the decoding of the bytes.
DoReadSnap ==
    /\ last.op = "Init"
    /\ \E snapname \in DOMAIN dir :
         LET Returns(r) ==
                 last' = Call("readSnap", NoSnap, <<>>, r.err, r.snap,
                              <<[name |-> snapname, err |-> r.err, renamed |-> FALSE]>>,
                              "none", "none", {})
         IN  IF ~dir[snapname].readable
             THEN Returns([snap |-> NoSnap, err |-> "ErrReadFile"])
             ELSE Returns(decodeSnap(dir[snapname].bytes))
    /\ UNCHANGED <<dir, faults, run>>

NextRead == DoReadSnap

SpecRead == InitRead /\ [][NextRead]_vars

(***************************************************************************)
(* SpecName: the file names save derives for two (term, index) pairs.  A   *)
(* 64-bit value is the sequence of its digits in base 16 without leading   *)
(* zeros, as ParseUint gives it.  The values are 0, 9, 10, 16, 2^32, 2^63  *)
(* and 2^64 - 1.                                                           *)
(***************************************************************************)
NameValues ==
    {<<>>, <<9>>, <<10>>, <<1, 0>>, <<1>> \o Zeros(8), <<8>> \o Zeros(15),
     [k \in 1..U64HexDigits |-> 15]}

NamePairs == {[term |-> t, index |-> i] : t \in NameValues, i \in NameValues}

InitName ==
    /\ dir = [n \in {DBName} |-> File(<<>>)]
    /\ \E a \in NamePairs, b \in NamePairs :
          last = Call("Init", NoSnap, <<a, b>>, "nil", NoSnap, <<>>, "none", "none", {})
    /\ faults = 0
    /\ run = Idle

\* fname of save for each of the two pairs (line 68).
DoSnapName ==
    /\ last.op = "Init"
    /\ last' = [last EXCEPT
                  !.op = "SnapName",
                  !.reads = [k \in 1..2 |->
                               [name |-> SnapNameU64(last.walSnaps[k].term, last.walSnaps[k].index),
                                err |-> "nil", renamed |-> FALSE]]]
    /\ UNCHANGED <<dir, faults, run>>

NextName == DoSnapName

SpecName == InitName /\ [][NextName]_vars

(***************************************************************************)
(* The properties.  An action property [][A]_vars speaks of one call: dir  *)
(* is the directory before the call, dir' the directory after it and last' *)
(* the call with its results.                                              *)
(***************************************************************************)
IsLoad(op) == op \in {"Load", "LoadNewestAvailable"}

NameOf(snapshot) == SnapName(snapshot.metadata[1].term, snapshot.metadata[1].index)

\* The greatest of a non-empty set of names, in the order of the bytes.
Greatest(names) == CHOOSE n \in names : \A m \in names : m = n \/ StrLess(m, n)

\* The candidates that hold a snapshot readSnap accepts.
Valid(d) == {n \in Candidates(d) : readSnap(d, n).err = "nil"}

\* Every candidate holds what a successful SaveSnap wrote.
Intact(d) == \A n \in Candidates(d) : d[n].readable /\ d[n].bytes \in Written

\* The snapshots saved in an intact directory, and the newest of some.
SavedIn(d) == {s \in Persistable : NameOf(s) \in DOMAIN d /\ d[NameOf(s)] = File(Frames[s])}

Newest(S) ==
    CHOOSE s \in S : \A t \in S :
        \/ t.metadata[1].term < s.metadata[1].term
        \/ (t.metadata[1].term = s.metadata[1].term /\ t.metadata[1].index <= s.metadata[1].index)

\* The snapshots whose serialized payload has the checksum 0.
ZeroCrc == {s \in Persistable : IsZeroWord(crc32Update(MarshalSnapshot(s)))}

SavedAlone ==
    /\ last.op = "SaveSnap" /\ last.err = "nil" /\ last.snap \in Persistable
    /\ Candidates(dir) = {NameOf(last.snap)}

\* C1 (as stated): a successful SaveSnap(s) of a snapshot with metadata and a
\* non-zero index, in a directory with no other .snap file, followed by Load:
\* Load returns a snapshot equal to s.
RoundTrip ==
    [][(SavedAlone /\ last'.op = "Load") => (last'.err = "nil" /\ last'.ret = last.snap)]_vars

\* C1, what holds: the round trip of every snapshot whose payload has a
\* checksum other than 0.
RoundTripNonZeroCrc ==
    [][(SavedAlone /\ last.snap \notin ZeroCrc /\ last'.op = "Load")
         => (last'.err = "nil" /\ last'.ret = last.snap)]_vars

\* C1: a snapshot whose payload has the checksum 0 was saved alone, and the
\* Load that followed found no snapshot.
RoundTripLost ==
    /\ last.op = "Load" /\ last.err = "ErrNoSnapshot"
    /\ SavedIn(dir) = {}
    /\ \E s \in ZeroCrc : NameOf(s) \o BrokenSuffix \in DOMAIN dir
                          /\ dir[NameOf(s) \o BrokenSuffix] = File(Frames[s])

\* C2 (as stated): after successful SaveSnap calls only (no write has failed
\* and no file has been damaged), Load returns the saved snapshot with the
\* greatest (term, index), term compared first.
NewestFirst ==
    [][(last'.op = "Load" /\ faults = 0 /\ Candidates(dir) # {} /\ Intact(dir))
         => (last'.err = "nil" /\ last'.ret = Newest(SavedIn(dir)))]_vars

\* C2, what holds: Load returns the snapshot of the candidate with the
\* greatest name among those readSnap accepts, and fails with ErrNoSnapshot
\* when there is none.
NewestValidFirst ==
    [][last'.op = "Load"
         => IF Valid(dir) = {} THEN last'.err = "ErrNoSnapshot"
            ELSE last'.err = "nil" /\ last'.ret = readSnap(dir, Greatest(Valid(dir))).snap]_vars

\* C2: Load has returned the older of two saved snapshots, the newer having
\* a payload with the checksum 0.
OlderReturned ==
    /\ faults = 0
    /\ last.op = "Load" /\ last.err = "nil" /\ Len(last.reads) = 2
    /\ last.reads[1].err = "ErrEmptySnapshot"
    /\ \E s \in ZeroCrc : last.reads[1].name = NameOf(s)
    /\ last.ret \in Persistable /\ last.reads[2].name = NameOf(last.ret)

\* The contents whose stored checksum differs from the CRC of the stored
\* payload, and those of them with a payload and a stored checksum other than 0.
StoredMismatch ==
    {b \in Contents : LET e == UnmarshalSavedSnapshot(b) IN e.ok /\ e.Crc # crc32Update(e.Data)}

DetectedMismatch ==
    {b \in StoredMismatch :
        LET e == UnmarshalSavedSnapshot(b) IN e.Data # <<>> /\ ~IsZeroWord(e.Crc)}

\* C3 (as stated): a load that reads a .snap file whose stored checksum
\* differs from the CRC of its payload fails on it with CRCMismatch, and after
\* the call <name>.broken exists and <name> does not.
ChecksumSensitivity ==
    [][IsLoad(last'.op) =>
         \A k \in 1..Len(last'.reads) :
            LET e == last'.reads[k] IN
            (dir[e.name].readable /\ dir[e.name].bytes \in StoredMismatch) =>
               /\ e.err = "ErrCRCMismatch"
               /\ e.name \o BrokenSuffix \in DOMAIN dir'
               /\ e.name \notin DOMAIN dir']_vars

\* C3 (amended): when the file has a payload and a stored checksum other
\* than 0 that differs from the CRC of the payload, the read fails with
\* CRCMismatch and its snapshot is not returned; when moreover the rename
\* succeeds, <name>.broken holds the file afterwards and <name> is gone.
ChecksumMismatchQuarantined ==
    [][IsLoad(last'.op) =>
         \A k \in 1..Len(last'.reads) :
            LET e == last'.reads[k] IN
            (dir[e.name].readable /\ dir[e.name].bytes \in DetectedMismatch) =>
               /\ e.err = "ErrCRCMismatch"
               /\ (last'.err = "nil" => k < Len(last'.reads))
               /\ e.renamed =>
                    /\ e.name \o BrokenSuffix \in DOMAIN dir'
                    /\ dir'[e.name \o BrokenSuffix] = dir[e.name]
                    /\ e.name \notin DOMAIN dir']_vars

\* C3: a load has read a file with a wrong checksum and renamed it.
MismatchQuarantined ==
    /\ IsLoad(last.op)
    /\ \E k \in 1..Len(last.reads) :
          /\ last.reads[k].err = "ErrCRCMismatch" /\ last.reads[k].renamed
          /\ last.reads[k].name \o BrokenSuffix \in DOMAIN dir
          /\ dir[last.reads[k].name \o BrokenSuffix].bytes \in DetectedMismatch

\* The candidates with a snapshot readSnap accepts whose (term, index) is one
\* of the markers.
MatchingOnDisk(d, walSnaps) ==
    {n \in Valid(d) :
        LET m == readSnap(d, n).snap.metadata IN
        m # Nil /\ \E i \in 1..Len(walSnaps) : walSnaps[i] = m[1]}

\* C4 (as stated): LoadNewestAvailable(markers) returns the snapshot of the
\* newest candidate among the valid ones that match a marker, and fails with
\* NoSnapshot when no valid candidate matches a marker.
MarkerMatching ==
    [][last'.op = "LoadNewestAvailable" =>
         IF MatchingOnDisk(dir, last'.walSnaps) = {} THEN last'.err = "ErrNoSnapshot"
         ELSE /\ last'.err = "nil"
              /\ last'.ret = readSnap(dir, Greatest(MatchingOnDisk(dir, last'.walSnaps))).snap]_vars

\* C4, what holds: the same of every call that does not end in a panic.
MarkerMatchingUnlessPanic ==
    [][(last'.op = "LoadNewestAvailable" /\ last'.err # "panic") =>
         IF MatchingOnDisk(dir, last'.walSnaps) = {} THEN last'.err = "ErrNoSnapshot"
         ELSE /\ last'.err = "nil"
              /\ last'.ret = readSnap(dir, Greatest(MatchingOnDisk(dir, last'.walSnaps))).snap]_vars

\* C4: LoadNewestAvailable has returned a snapshot that matches a marker
\* after it has read and passed over a newer valid one.
NewerSkipped ==
    /\ last.op = "LoadNewestAvailable" /\ last.err = "nil" /\ Len(last.reads) = 2
    /\ last.reads[1].err = "nil" /\ last.reads[2].err = "nil"
    /\ \E i \in 1..Len(last.walSnaps) : last.walSnaps[i] = last.ret.metadata[1]

\* The place in the markers of the latest marker that a valid candidate matches.
LatestMatched(d, walSnaps) ==
    CHOOSE i \in 1..Len(walSnaps) :
        /\ \E n \in Valid(d) : readSnap(d, n).snap.metadata = <<walSnaps[i]>>
        /\ \A j \in (i + 1)..Len(walSnaps) :
              ~\E n \in Valid(d) : readSnap(d, n).snap.metadata = <<walSnaps[j]>>

\* C5 (as stated): when two or more valid candidates match a marker,
\* LoadNewestAvailable returns the one that matches the marker closest to the
\* end of the list.
MostRecentMarker ==
    [][(last'.op = "LoadNewestAvailable"
          /\ Cardinality(MatchingOnDisk(dir, last'.walSnaps)) >= 2)
         => /\ last'.err = "nil"
            /\ last'.ret.metadata = <<last'.walSnaps[LatestMatched(dir, last'.walSnaps)]>>]_vars

\* C5 (amended): when two or more valid candidates match a marker, the
\* snapshot LoadNewestAvailable returns is that of the greatest file name
\* among them, whatever the order of the markers.
NewestMatchingOnDisk ==
    [][(last'.op = "LoadNewestAvailable" /\ last'.err = "nil"
          /\ Cardinality(MatchingOnDisk(dir, last'.walSnaps)) >= 2)
         => last'.ret = readSnap(dir, Greatest(MatchingOnDisk(dir, last'.walSnaps))).snap]_vars

\* C5: two snapshots match the two markers, and the one returned matches the
\* first marker, not the last.
FirstMarkerReturned ==
    /\ last.op = "LoadNewestAvailable" /\ last.err = "nil"
    /\ Len(last.walSnaps) = 2 /\ last.walSnaps[1] # last.walSnaps[2]
    /\ Cardinality(MatchingOnDisk(dir, last.walSnaps)) = 2
    /\ last.ret.metadata = <<last.walSnaps[1]>>

\* C6: SaveSnap of a snapshot without metadata or with index 0 returns
\* success and leaves every file as it is; no file named for index 0 exists
\* after any call.
ZeroIndexNoOp ==
    [][/\ (last'.op = "SaveSnap"
             /\ (last'.snap.metadata = Nil \/ last'.snap.metadata[1].index = 0))
          => (last'.err = "nil" /\ dir' = dir)
       /\ \A t \in Terms : SnapName(t, 0) \notin DOMAIN dir']_vars

\* C6: SaveSnap has been called with index 0, a term and data on a directory
\* that holds a snapshot.
ZeroIndexSaved ==
    /\ last.op = "SaveSnap" /\ last.err = "nil"
    /\ last.snap.metadata # Nil /\ last.snap.metadata[1].index = 0
    /\ last.snap.metadata[1].term # 0 /\ last.snap.data # <<>>
    /\ Candidates(dir) # {}

\* C7 (as stated): Load and LoadNewestAvailable end by returning a snapshot
\* or an error; they do not abort the process.
GracefulReads == IsLoad(last.op) => last.err # "panic"

\* C7, what holds: Load does not abort the process.
GracefulLoad == last.op = "Load" => last.err # "panic"

\* C7: LoadNewestAvailable has aborted on a file that passes the checksum
\* and holds a snapshot without metadata.
PanicOnNoMetadata ==
    /\ last.op = "LoadNewestAvailable" /\ last.err = "panic"
    /\ \E n \in Candidates(dir) : dir[n] = File(NoMetadataFile)

\* C8: when the write fails, SaveSnap returns the error of the write, also
\* when the removal fails; unless the removal fails, no file is at the path
\* of the snapshot afterwards.
SaveFailure ==
    [][(last'.op = "SaveSnap" /\ last'.write \in {"open", "short"})
         => /\ last'.err = "ErrWrite"
            /\ last'.rerr \in {"nil", "ENOENT", "EPERM"}
            /\ last'.rerr # "EPERM" => NameOf(last'.snap) \notin DOMAIN dir']_vars

\* C8: a write has stopped short and the removal has succeeded.
PartialRemoved ==
    /\ last.op = "SaveSnap" /\ last.write = "short" /\ last.rerr = "nil"
    /\ last.err = "ErrWrite"
    /\ NameOf(last.snap) \notin DOMAIN dir

\* C9: after a Load or a LoadNewestAvailable that did not fail on the removal
\* of a file, no file whose name starts with db.tmp is in the directory.
OrphanCleanup ==
    [][(IsLoad(last'.op) /\ last'.err # "ErrRemoveOrphan") => Orphans(dir') = {}]_vars

\* C9: a Load has found no snapshot and the files of the crash are gone.
OrphansGone ==
    /\ last.op = "Load" /\ last.err = "ErrNoSnapshot"
    /\ Orphans(dir) = {}
    /\ DBName \in DOMAIN dir

\* The index a name with the suffix .snap.db stands for: -1 when it is no
\* 64-bit number in base 16.  The indices of the model have few digits; a
\* longer one counts as greater than every index released.
RECURSIVE NatOfHex(_)
NatOfHex(ds) == IF ds = <<>> THEN 0 ELSE 16 * NatOfHex(SubSeq(ds, 1, Len(ds) - 1)) + ds[Len(ds)]

IndexOf(n) ==
    LET p == ParseUint(SubSeq(n, 1, Len(n) - Len(SnapDBSuffix))) IN
    IF ~p.ok THEN -1 ELSE IF Len(p.val) > 6 THEN 16777216 ELSE NatOfHex(p.val)

Reclaimable(d, index) == {n \in SnapDBs(d) : IndexOf(n) >= 0 /\ IndexOf(n) < index}

\* C10 (as stated): ReleaseSnapDBs(snap) deletes exactly the .snap.db files
\* whose index parses and is less than the index of snap, leaves every other
\* file unchanged and returns success.
ReclaimsExactly ==
    [][(last'.op = "ReleaseSnapDBs" /\ last'.snap.metadata # Nil)
         => /\ last'.err = "nil"
            /\ DOMAIN dir' = DOMAIN dir \ Reclaimable(dir, last'.snap.metadata[1].index)
            /\ \A n \in DOMAIN dir' : dir'[n] = dir[n]]_vars

\* C10 (amended): it deletes exactly those of them on which the removal
\* succeeds; a file whose removal fails stays.
ReclaimsRemovable ==
    [][(last'.op = "ReleaseSnapDBs" /\ last'.snap.metadata # Nil)
         => /\ last'.err = "nil"
            /\ last'.failed \subseteq Reclaimable(dir, last'.snap.metadata[1].index)
            /\ DOMAIN dir' = DOMAIN dir
                 \ (Reclaimable(dir, last'.snap.metadata[1].index) \ last'.failed)
            /\ \A n \in DOMAIN dir' : dir'[n] = dir[n]]_vars

\* C10: a release at the greatest index has deleted the files of the lesser
\* indices and left the one of its own index.
LesserReclaimed ==
    /\ last.op = "ReleaseSnapDBs" /\ last.err = "nil" /\ last.failed = {}
    /\ last.snap.metadata # Nil /\ last.snap.metadata[1].index = MaxIndex
    /\ SnapDBs(dir) \cap {SnapDBName(i) : i \in Indices} = {SnapDBName(MaxIndex)}

\* C11: Load on a directory with no file suffixed .snap (empty, or with only
\* db, .snap.db, .broken and unrelated files) fails with ErrNoSnapshot; it
\* reads no file and changes none.
NoSnapshots ==
    [][(last'.op = "Load" /\ Candidates(dir) = {} /\ Orphans(dir) = {})
         => (last'.err = "ErrNoSnapshot" /\ last'.reads = <<>> /\ dir' = dir)]_vars

\* C11: a Load has found no snapshot in a directory that holds db, files
\* suffixed .snap.db, a .broken file and a file of another program.
NoSnapshotAmongOthers ==
    /\ last.op = "Load" /\ last.err = "ErrNoSnapshot" /\ last.reads = <<>>
    /\ Candidates(dir) = {} /\ Orphans(dir) = {}
    /\ ({DBName} \cup OddSnapDBNames \cup OtherNames) \subseteq DOMAIN dir

\* The predicate of a load, as the spec words it: Load accepts every
\* snapshot, LoadNewestAvailable those whose (term, index) is a marker.
Accepts(call, snapshot) ==
    \/ call.op = "Load"
    \/ /\ snapshot.metadata # Nil
       /\ \E i \in 1..Len(call.walSnaps) : call.walSnaps[i] = snapshot.metadata[1]

\* The scan of one load: d is the directory before the call, e the one after
\* it.  The candidates are read from the greatest name down, none twice and
\* none passed over; each read gives what the file holds; a file that failed
\* is under <name>.broken afterwards unless the rename failed, a file that was
\* read well stays; the scan goes past a file only when it failed or was not
\* accepted.
Scan(call, d, e) ==
    LET rs == call.reads
        read == {rs[k].name : k \in 1..Len(rs)}
    IN  /\ read \subseteq Candidates(d)
        /\ \A k \in 1..(Len(rs) - 1) : StrLess(rs[k + 1].name, rs[k].name)
        /\ \A n \in Candidates(d) \ read : \A m \in read : StrLess(n, m)
        /\ \A k \in 1..Len(rs) :
              LET n == rs[k].name IN
              /\ rs[k].err = readSnap(d, n).err
              /\ IF rs[k].err # "nil" /\ rs[k].renamed
                 THEN /\ n \notin DOMAIN e
                      /\ n \o BrokenSuffix \in DOMAIN e /\ e[n \o BrokenSuffix] = d[n]
                 ELSE n \in DOMAIN e /\ e[n] = d[n]
              /\ k < Len(rs) => (rs[k].err # "nil" \/ ~Accepts(call, readSnap(d, n).snap))

\* The end of one load: it returns the snapshot of the last file read, which
\* was read well and accepted, or it fails with ErrNoSnapshot after every
\* candidate has been read and none was both.
Found(call, d) ==
    /\ call.err = "nil" /\ Len(call.reads) >= 1
    /\ LET n == call.reads[Len(call.reads)].name IN
       /\ readSnap(d, n).err = "nil" /\ Accepts(call, readSnap(d, n).snap)
       /\ call.ret = readSnap(d, n).snap

Exhausted(call, d) ==
    /\ call.err = "ErrNoSnapshot"
    /\ {call.reads[k].name : k \in 1..Len(call.reads)} = Candidates(d)
    /\ \A n \in Candidates(d) :
          readSnap(d, n).err # "nil" \/ ~Accepts(call, readSnap(d, n).snap)

\* The scan stopped in a panic: at a file that was read well and holds a
\* snapshot without metadata, in a LoadNewestAvailable with a marker.
Aborted(call, d) ==
    /\ call.err = "panic" /\ call.op = "LoadNewestAvailable" /\ call.walSnaps # <<>>
    /\ Len(call.reads) >= 1
    /\ readSnap(d, call.reads[Len(call.reads)].name).err = "nil"
    /\ readSnap(d, call.reads[Len(call.reads)].name).snap.metadata = Nil

\* C12 (as stated): a load reads the candidates newest first, renames each
\* that fails to <name>.broken and goes on, and ends by returning the first
\* that is valid and accepted, reading none older, or by failing with
\* NoSnapshot after all have been read; a rename that fails changes nothing
\* of this.
QuarantineAndContinue ==
    [][IsLoad(last'.op)
         => /\ Scan(last', dir, dir')
            /\ Found(last', dir) \/ Exhausted(last', dir)]_vars

\* C12, what holds: the same, but the scan may also stop in a panic at a
\* valid file without metadata.
QuarantineAndContinueUnlessPanic ==
    [][IsLoad(last'.op)
         => /\ Scan(last', dir, dir')
            /\ Found(last', dir) \/ Exhausted(last', dir) \/ Aborted(last', dir)]_vars

\* C12: a load has renamed the newest candidate, which failed, and returned
\* the next one.
QuarantinedAndContinued ==
    /\ IsLoad(last.op) /\ last.err = "nil" /\ Len(last.reads) = 2
    /\ last.reads[1].err # "nil" /\ last.reads[1].renamed
    /\ last.reads[1].name \o BrokenSuffix \in DOMAIN dir
    /\ last.reads[1].name \notin DOMAIN dir
    /\ last.reads[2].err = "nil" /\ last.reads[2].name \in DOMAIN dir

\* C13 (as stated): no step of a Load renames, deletes or alters a file that
\* a successful SaveSnap has written, however the steps of the two calls
\* interleave.
ConcurrentSaveIntact ==
    [][run'.by = "reader" /\ run' # run
         => \A n \in run.saved : n \in DOMAIN dir' /\ dir'[n] = dir[n]]_vars

\* C13, what holds: the one file a step of a Load can move is the candidate
\* whose read failed last, to <name>.broken (in place of a file of that name),
\* whatever is under the name of the candidate by then; every other file
\* stays as it is; a saved file whose name is not in the listing of the Load
\* is neither moved nor read.
ConcurrentSaveIntactUnlessReadBad ==
    [][run'.by = "reader" /\ run' # run
         => /\ \A n \in DOMAIN dir :
                 \/ n \in DOMAIN dir' /\ dir'[n] = dir[n]
                 \/ /\ run.rpc = "rename" /\ n = run.names[run.k]
                    /\ run.reads[Len(run.reads)].err # "nil"
                    /\ n \notin DOMAIN dir'
                    /\ n \o BrokenSuffix \in DOMAIN dir' /\ dir'[n \o BrokenSuffix] = dir[n]
                 \/ /\ run.rpc = "rename" /\ n = run.names[run.k] \o BrokenSuffix
                    /\ run.names[run.k] \notin DOMAIN dir'
            /\ \A n \in run.saved :
                 (\A k \in 1..Len(run'.names) : run'.names[k] # n)
                    => /\ n \in DOMAIN dir' /\ dir'[n] = dir[n]
                       /\ \A k \in 1..Len(run'.reads) : run'.reads[k].name # n]_vars

\* C13: a Load has returned while a file saved after its listing, which it
\* has not read, is in place as written.
SavedFileMissed ==
    /\ run.rpc = "done" /\ run.names # <<>> /\ last.op = "Load"
    /\ \E n \in run.saved :
          /\ \A k \in 1..Len(run.names) : run.names[k] # n
          /\ n \in DOMAIN dir /\ dir[n].bytes \in Written

\* A Load has moved a valid file, saved between its read and its rename of
\* that name, to <name>.broken.
SavedFileQuarantined ==
    /\ run.by = "reader" /\ Len(run.reads) >= 1
    /\ LET e == run.reads[Len(run.reads)] IN
       /\ e.err = "ErrUnmarshal" /\ e.renamed
       /\ e.name \o BrokenSuffix \in DOMAIN dir
       /\ readSnap(dir, e.name \o BrokenSuffix).err = "nil"

\* C14 (as stated): a file that holds what a successful SaveSnap(s) wrote
\* under the name of s is there with the same content after every call of
\* the store (the damage done from outside is no call).
Immutable ==
    [][last'.op # "Tamper"
         => \A s \in SavedIn(dir) :
               NameOf(s) \in DOMAIN dir' /\ dir'[NameOf(s)] = dir[NameOf(s)]]_vars

\* C14, what holds: the file stays as written through every call but two: a
\* SaveSnap for the same term and index, which replaces it when it succeeds
\* and removes it when its write fails, and a load that rejects it because
\* its payload has the checksum 0, which moves it to <name>.broken.
ImmutableUnlessResaved ==
    [][last'.op # "Tamper"
         => \A s \in SavedIn(dir) :
               LET n == NameOf(s) IN
               \/ n \in DOMAIN dir' /\ dir'[n] = dir[n]
               \/ /\ last'.op = "SaveSnap" /\ last'.snap \in Persistable
                  /\ NameOf(last'.snap) = n
                  /\ IF last'.err = "nil" THEN last'.snap # s /\ dir'[n] = File(Frames[last'.snap])
                     ELSE last'.write \in {"open", "short"}
               \/ /\ IsLoad(last'.op) /\ s \in ZeroCrc
                  /\ \E k \in 1..Len(last'.reads) :
                        last'.reads[k].name = n /\ last'.reads[k].renamed
                  /\ n \notin DOMAIN dir' /\ dir'[n \o BrokenSuffix] = dir[n]]_vars

\* C14: a SaveSnap could not open its file and has then removed the file at
\* its path: the one an earlier SaveSnap had written.
PersistedRemoved ==
    /\ last.op = "SaveSnap" /\ last.err = "ErrWrite"
    /\ last.write = "open" /\ last.rerr = "nil"
    /\ NameOf(last.snap) \notin DOMAIN dir

\* The quarantined files of a directory.
Broken(d) == {n \in DOMAIN d : HasSuffix(n, BrokenSuffix)}

\* C15 (as stated): a file named <name>.broken is read (so listed, returned
\* or renamed) by no load, and it is there with the same content after every
\* step: a save, a load, the damage of a snapshot file.
QuarantineKept ==
    [][\A n \in Broken(dir) :
          /\ \A k \in 1..Len(last'.reads) : last'.reads[k].name # n
          /\ n \in DOMAIN dir' /\ dir'[n] = dir[n]]_vars

\* C15, what holds: no load reads it and a file of that name stays, with the
\* same content unless a load quarantines a later file of the name it had:
\* the rename puts that file in its place.
QuarantineKeptUnlessReplaced ==
    [][\A n \in Broken(dir) :
          /\ \A k \in 1..Len(last'.reads) : last'.reads[k].name # n
          /\ n \in DOMAIN dir'
          /\ \/ dir'[n] = dir[n]
             \/ /\ IsLoad(last'.op)
                /\ \E k \in 1..Len(last'.reads) :
                      /\ last'.reads[k].name \o BrokenSuffix = n
                      /\ last'.reads[k].err # "nil" /\ last'.reads[k].renamed
                      /\ dir'[n] = dir[last'.reads[k].name]]_vars

\* C15: a load has returned the snapshot of a file saved again under the
\* name of a quarantined file, which is still there.
QuarantinedAside ==
    /\ IsLoad(last.op) /\ last.err = "nil" /\ Len(last.reads) >= 1
    /\ LET n == last.reads[Len(last.reads)].name IN
       /\ n \o BrokenSuffix \in DOMAIN dir
       /\ readSnap(dir, n \o BrokenSuffix).err # "nil"
       /\ readSnap(dir, n).err = "nil"

\* No step of the call failed in the file system: no write, no removal and
\* no rename.
Unfailed(call) ==
    /\ call.write \in {"ok", "none"} /\ call.failed = {}
    /\ call.err # "ErrRemoveOrphan"
    /\ \A k \in 1..Len(call.reads) : call.reads[k].err # "nil" => call.reads[k].renamed

Kept(n, d, e) == n \in DOMAIN e /\ e[n] = d[n]

OrphanDeleted(n, e) == HasPrefix(n, TmpPrefix) /\ n \notin DOMAIN e

Quarantined(call, n, d, e) ==
    /\ n \in Candidates(d) /\ readSnap(d, n).err # "nil"
    /\ \E k \in 1..Len(call.reads) : call.reads[k].name = n /\ call.reads[k].renamed
    /\ n \notin DOMAIN e
    /\ n \o BrokenSuffix \in DOMAIN e /\ e[n \o BrokenSuffix] = d[n]

\* C17 (as stated): Load and LoadNewestAvailable only delete files whose name
\* starts with db.tmp and rename candidates that failed to <name>.broken;
\* every other file (db, .snap.db files, .broken files, the snapshots that
\* are valid, accepted or not) is unchanged, and no other file appears.
LoadFrame ==
    [][IsLoad(last'.op)
         => /\ \A n \in DOMAIN dir :
                 Kept(n, dir, dir') \/ OrphanDeleted(n, dir') \/ Quarantined(last', n, dir, dir')
            /\ \A n \in DOMAIN dir' \ DOMAIN dir :
                 \E m \in DOMAIN dir : n = m \o BrokenSuffix /\ Quarantined(last', m, dir, dir')]_vars

\* C17, what holds: the same, but the rename of a rejected candidate replaces
\* a file that is already under <name>.broken.
LoadFrameUnlessReplaced ==
    [][IsLoad(last'.op)
         => /\ \A n \in DOMAIN dir :
                 \/ Kept(n, dir, dir') \/ OrphanDeleted(n, dir')
                 \/ Quarantined(last', n, dir, dir')
                 \/ \E m \in DOMAIN dir : n = m \o BrokenSuffix /\ Quarantined(last', m, dir, dir')
            /\ \A n \in DOMAIN dir' \ DOMAIN dir :
                 \E m \in DOMAIN dir : n = m \o BrokenSuffix /\ Quarantined(last', m, dir, dir')]_vars

\* C17: a LoadNewestAvailable has quarantined the newest candidate and
\* rejected the next, a valid snapshot that matches no marker and is still in
\* place, next to db, the .snap.db files and notes.txt.
RejectedInPlace ==
    /\ last.op = "LoadNewestAvailable" /\ last.err = "ErrNoSnapshot" /\ Len(last.reads) = 2
    /\ last.reads[1].err # "nil" /\ last.reads[1].renamed
    /\ last.reads[1].name \o BrokenSuffix \in DOMAIN dir
    /\ last.reads[2].err = "nil" /\ last.reads[2].name \in Valid(dir)
    /\ Orphans(dir) = {}
    /\ ({DBName} \cup OddSnapDBNames \cup OtherNames) \subseteq DOMAIN dir

\* The envelope of the file readSnap was called on, as the decoder of the
\* message format gives it: ok, Crc, Data.
EnvelopeRead == UnmarshalSavedSnapshot(dir[ReadName].bytes)

\* C18: readSnap fails with EmptySnapshot on a file of length zero and on an
\* envelope with an empty payload or a zero checksum, whatever the CRC of the
\* payload is; with CRCMismatch on an envelope with a payload and a checksum
\* other than zero that is not the CRC of the payload; it returns a snapshot
\* only of an envelope that parses, with a payload, with a checksum other than
\* zero that is the CRC of the payload, and with a payload that decodes: the
\* snapshot decoded from the payload.
UnframeClassification ==
    (last.op = "readSnap" /\ dir[ReadName].readable) =>
        LET b == dir[ReadName].bytes
            e == EnvelopeRead
        IN  /\ Len(b) = 0 => last.err = "ErrEmptySnapshot"
            /\ (Len(b) > 0 /\ e.ok /\ (e.Data = <<>> \/ IsZeroWord(e.Crc)))
                  => last.err = "ErrEmptySnapshot"
            /\ (Len(b) > 0 /\ e.ok /\ e.Data # <<>> /\ ~IsZeroWord(e.Crc)
                  /\ crc32Update(e.Data) # e.Crc)
                  => last.err = "ErrCRCMismatch"
            /\ last.err = "nil"
                  => /\ Len(b) > 0 /\ e.ok /\ e.Data # <<>> /\ ~IsZeroWord(e.Crc)
                     /\ crc32Update(e.Data) = e.Crc
                     /\ UnmarshalSnapshot(e.Data).ok
                     /\ last.ret = UnmarshalSnapshot(e.Data).snap
            /\ (Len(b) > 0 /\ e.ok /\ e.Data # <<>> /\ ~IsZeroWord(e.Crc)
                  /\ crc32Update(e.Data) = e.Crc /\ UnmarshalSnapshot(e.Data).ok)
                  => last.err = "nil"

\* C18: readSnap has failed with EmptySnapshot on an envelope with a zero
\* checksum and a payload whose CRC is not zero.
ZeroChecksumBeforeCrc ==
    /\ last.op = "readSnap" /\ last.err = "ErrEmptySnapshot"
    /\ dir[ReadName].readable /\ Len(dir[ReadName].bytes) > 0
    /\ EnvelopeRead.ok /\ EnvelopeRead.Data # <<>> /\ IsZeroWord(EnvelopeRead.Crc)
    /\ ~IsZeroWord(crc32Update(EnvelopeRead.Data))

\* C19: when the removal of a file whose name starts with db.tmp fails for
\* another reason than the file being gone, Load returns that error, no
\* snapshot and not ErrNoSnapshot, and has read, returned and renamed no
\* candidate; when the file is gone already, or removed, Load goes on as it
\* does without such files: it returns the newest valid snapshot or
\* ErrNoSnapshot.
OrphanFailureEscalated ==
    [][last'.op = "Load" =>
         IF last'.rerr = "EPERM"
         THEN /\ last'.err = "ErrRemoveOrphan" /\ last'.ret = NoSnap /\ last'.reads = <<>>
              /\ \A n \in Candidates(dir) \cup Broken(dir) : Kept(n, dir, dir')
              /\ Broken(dir') = Broken(dir)
         ELSE /\ last'.rerr \in {"none", "nil", "ENOENT"}
              /\ Orphans(dir') = {}
              /\ IF Valid(dir) = {} THEN last'.err = "ErrNoSnapshot"
                 ELSE /\ last'.err = "nil"
                      /\ last'.ret = readSnap(dir, Greatest(Valid(dir))).snap]_vars

\* C19: a Load has returned the error of a removal although a valid snapshot
\* is in the directory.
EscalatedOverSnapshot ==
    /\ last.op = "Load" /\ last.err = "ErrRemoveOrphan" /\ last.rerr = "EPERM"
    /\ last.reads = <<>> /\ Valid(dir) # {} /\ Orphans(dir) # {}

\* A Load has met a file that was gone already and has returned a snapshot.
GoneOrphanPassed ==
    /\ last.op = "Load" /\ last.err = "nil" /\ last.rerr = "ENOENT"
    /\ Orphans(dir) = {}

\* a < b for two numbers given by their digits in base 16 without leading
\* zeros: a has fewer digits, or as many and the lesser digit at the first
\* place where they differ.
NumLess(a, b) ==
    \/ Len(a) < Len(b)
    \/ /\ Len(a) = Len(b)
       /\ \E k \in 1..Len(a) : a[k] < b[k] /\ \A j \in 1..(k - 1) : a[j] = b[j]

\* (term, index) pairs: the term is compared first, then the index.
PairLess(a, b) ==
    NumLess(a.term, b.term) \/ (a.term = b.term /\ NumLess(a.index, b.index))

\* C20: the file name of the pair a sorts before that of the pair b exactly
\* when a is less than b, and two pairs have the same file name only when
\* they are equal; so the sort of snapnames puts the name of the greater pair
\* first.
NameOrder ==
    last.op = "SnapName" =>
        LET a  == last.walSnaps[1]
            b  == last.walSnaps[2]
            na == last.reads[1].name
            nb == last.reads[2].name
        IN  /\ StrLess(na, nb) <=> PairLess(a, b)
            /\ na = nb <=> a = b
            /\ Len(na) = Len(nb)
            /\ PairLess(a, b) => SortReverse(<<na, nb>>) = <<nb, na>>

\* C20: the names of (2^32, 10) and (2^32, 16) have been derived: without the
\* padding "10" would sort before "a".
PaddedOrder ==
    /\ last.op = "SnapName"
    /\ last.walSnaps[1] = [term |-> <<1>> \o Zeros(8), index |-> <<10>>]
    /\ last.walSnaps[2] = [term |-> <<1>> \o Zeros(8), index |-> <<1, 0>>]
    /\ StrLess(last.reads[1].name, last.reads[2].name)

=============================================================================
